---- MODULE Spec2Model ----
(***************************************************************************)
(* Model of partitioning_reducer.py: the GroupingReducer container, its    *)
(* class-level helpers groupBy / reusable, and the default strategies      *)
(* identity / addToList.                                                   *)
(*                                                                         *)
(* Python objects are modelled with reference semantics where the code     *)
(* depends on it: a list is a cell of `heap`, and a value stored in the    *)
(* dict is either an immutable int or a reference to such a cell.  The     *)
(* dict `data` is a sequence of (key, value) slots in insertion order,     *)
(* which is the iteration order of a Python dict.                          *)
(***************************************************************************)
EXTENDS Integers, Sequences, FiniteSets

\* ------------------------------------------------------------ bounds
MaxInserts == 3     \* items handed to one container over its life
MaxBatch == 2       \* length of one items argument
MaxCalls == 2       \* calls of groupBy / the reusable function
MaxData == 1        \* length of a dataset handed to groupBy / the reusable function

Items == 1..3       \* the items callers insert; 3 is the one picky functions reject
KeyArgs == 0..3     \* the keys callers look up: every key in use, and others
Batches == UNION {[1..n -> Items] : n \in 0..MaxBatch}
Datasets == UNION {[1..n -> Items] : n \in 0..MaxData}

\* ------------------------------------------------------------ values
IntV(n) == [tag |-> "int", n |-> n]
ListV(ref) == [tag |-> "list", n |-> ref]
NoneV == [tag |-> "None", n |-> 0]
SentinelV == [tag |-> "sentinel", n |-> 0]
Defaults == {NoneV, SentinelV}

\* The content a value denotes in heap h (what == compares, what a caller sees).
Deref(v, h) ==
  IF v.tag = "list" THEN [tag |-> "list", n |-> 0, elems |-> h[v.n]]
  ELSE [tag |-> v.tag, n |-> v.n, elems |-> <<>>]

Ok(v, h) == [err |-> "none", val |-> v, heap |-> h]
Raise(e, h) == [err |-> e, val |-> NoneV, heap |-> h]

\* ------------------------------------------------------------ dict
EmptyDict == <<>>
Keys(d) == [i \in 1..Len(d) |-> d[i].k]
Values(d) == [i \in 1..Len(d) |-> d[i].v]
KeySet(d) == {d[i].k : i \in 1..Len(d)}
Contains(d, key) == \E i \in 1..Len(d) : d[i].k = key
IndexOf(d, key) == CHOOSE i \in 1..Len(d) : d[i].k = key
GetValue(d, key) == d[IndexOf(d, key)].v

\* Faulty variant of data[key] = v: never overwrites a slot, always adds one.
SetItemAppendOnly(d, key, v) == Append(d, [k |-> key, v |-> v])

\* Faulty variant of data[key] = v: a rebound key moves to the end.
SetItemMoveToEnd(d, key, v) ==
  Append(SelectSeq(d, LAMBDA s : s.k # key), [k |-> key, v |-> v])

\* data[key] = v: rebinding keeps the slot's position, a new key goes last.
SetItem(d, key, v) ==
  IF Contains(d, key)
  THEN [d EXCEPT ![IndexOf(d, key)] = [k |-> key, v |-> v]]
  ELSE Append(d, [k |-> key, v |-> v])

\* dict.copy(): a new dict with the same slots, the values shared.
Copy(d) == d

View(d, h) == [i \in 1..Len(d) |-> [k |-> d[i].k, v |-> Deref(d[i].v, h)]]

\* ------------------------------------------------------------ strategies
identity(item) == item

addToList(acc, item, h) == Ok(acc, [h EXCEPT ![acc.n] = Append(@, item)])

\* Caller-supplied key extractors.
parity(item) == item % 2
pickyKey(item) == IF item = 3 THEN Raise("ValueError", <<>>) ELSE Ok(item % 2, <<>>)

\* Caller-supplied reducers over immutable ints.
sum(acc, item, h) == Ok(IntV(acc.n + item), h)
\* table[acc] + weights[item] with table = {0: 0, 1: 1}, weights = {1: 1, 2: 2}
lookupSum(acc, item, h) ==
  IF acc.n \notin {0, 1} \/ item \notin {1, 2} THEN Raise("KeyError", h)
  ELSE Ok(IntV(acc.n + item), h)
pickySum(acc, item, h) ==
  IF item = 3 THEN Raise("ValueError", h) ELSE Ok(IntV(acc.n + item), h)

Config(g, r, s) == [groupBy |-> g, reducer |-> r, starter |-> s]
DefaultConfig == Config("identity", "addToList", "list")
Configs == {
  DefaultConfig,
  Config("parity", "addToList", "list"),
  Config("parity", "sum", "zero"),
  Config("parity", "lookupSum", "zero"),
  Config("parity", "pickySum", "zero"),
  Config("pickyKey", "sum", "zero"),
  Config("parity", "sum", "failing") }

\* self.key_transform(item)
KeyTransform(c, item) ==
  CASE c.groupBy = "identity" -> Ok(identity(item), <<>>)
    [] c.groupBy = "parity" -> Ok(parity(item), <<>>)
    [] c.groupBy = "pickyKey" -> pickyKey(item)

\* Faulty variant of starter(): one shared list instead of a new one per call.
StarterShared(c, h) ==
  CASE c.starter = "list" ->
         IF Len(h) > 0 THEN Ok(ListV(1), h) ELSE Ok(ListV(1), <<<<>>>>)
    [] c.starter = "zero" -> Ok(IntV(0), h)
    [] c.starter = "failing" -> Raise("RuntimeError", h)

\* self.starter(): list() allocates a new empty list on every call.
Starter(c, h) ==
  CASE c.starter = "list" -> Ok(ListV(Len(h) + 1), Append(h, <<>>))
    [] c.starter = "zero" -> Ok(IntV(0), h)
    [] c.starter = "failing" -> Raise("RuntimeError", h)

\* self.reducer(acc, item)
Reducer(c, acc, item, h) ==
  CASE c.reducer = "addToList" -> addToList(acc, item, h)
    [] c.reducer = "sum" -> sum(acc, item, h)
    [] c.reducer = "lookupSum" -> lookupSum(acc, item, h)
    [] c.reducer = "pickySum" -> pickySum(acc, item, h)

\* ------------------------------------------------------------ add / addAll
\* The outcome of one add: the dict and heap after it, the error that left
\* add ("none" when it returned), the first error a caller-supplied function
\* raised, and how many reducer/starter calls were made after that raise.
Outcome(d, h, err, raised, after) ==
  [data |-> d, heap |-> h, err |-> err, raised |-> raised, after |-> after]

\* Faulty variant of add: creates the slot with starter() before it reduces.
AddEagerSlot(c, d, h, item) ==
  LET kt == KeyTransform(c, item) IN
  IF kt.err # "none" THEN Outcome(d, h, kt.err, kt.err, 0)
  ELSE
    LET key == kt.val
        s == IF Contains(d, key) THEN Ok(GetValue(d, key), h) ELSE Starter(c, h)
    IN IF s.err # "none" THEN Outcome(d, s.heap, s.err, s.err, 0)
       ELSE LET d1 == SetItem(d, key, s.val)
                r == Reducer(c, s.val, item, s.heap)
            IN IF r.err # "none" THEN Outcome(d1, r.heap, r.err, r.err, 0)
               ELSE Outcome(SetItem(d1, key, r.val), r.heap, "none", "none", 0)

Add(c, d, h, item) ==
  LET kt == KeyTransform(c, item) IN
  IF kt.err # "none" THEN Outcome(d, h, kt.err, kt.err, 0)
  ELSE
    LET key == kt.val
        First(prev, e) == IF prev = "none" THEN e ELSE prev
        \* except KeyError: self.data[key] = self.reducer(self.starter(), item)
        Handler(prev, h0) ==
          LET s == Starter(c, h0) IN
          IF s.err # "none"
          THEN Outcome(d, s.heap, s.err, First(prev, s.err),
                       IF prev = "none" THEN 0 ELSE 1)
          ELSE LET r == Reducer(c, s.val, item, s.heap) IN
               IF r.err # "none"
               THEN Outcome(d, r.heap, r.err, First(prev, r.err),
                            IF prev = "none" THEN 0 ELSE 2)
               ELSE Outcome(SetItem(d, key, r.val), r.heap, "none", prev,
                            IF prev = "none" THEN 0 ELSE 2)
    IN
    \* try: self.data[key] = self.reducer(self.data[key], item)
    IF ~Contains(d, key) THEN Handler("none", h)
    ELSE LET r == Reducer(c, GetValue(d, key), item, h) IN
         IF r.err = "KeyError" THEN Handler("KeyError", r.heap)
         ELSE IF r.err # "none" THEN Outcome(d, r.heap, r.err, r.err, 0)
         ELSE Outcome(SetItem(d, key, r.val), r.heap, "none", "none", 0)

\* The outcome of a loop of adds: as Outcome, plus `done`, the number of
\* items whose add returned.
RECURSIVE AddLoop(_, _, _, _, _)
AddLoop(c, d, h, items, i) ==
  IF i > Len(items)
  THEN [data |-> d, heap |-> h, err |-> "none", raised |-> "none", after |-> 0,
        done |-> Len(items)]
  ELSE LET r == Add(c, d, h, items[i]) IN
       IF r.err # "none"
       THEN [data |-> r.data, heap |-> r.heap, err |-> r.err, raised |-> r.raised,
             after |-> r.after, done |-> i - 1]
       ELSE LET rest == AddLoop(c, r.data, r.heap, items, i + 1) IN
            IF r.raised # "none"
            THEN [rest EXCEPT !.raised = r.raised, !.after = r.after]
            ELSE rest

Reverse(s) == [i \in 1..Len(s) |-> s[Len(s) + 1 - i]]

\* Faulty variant of addAll: walks the items backwards.
AddAllReversed(c, d, h, items) == AddLoop(c, d, h, Reverse(items), 1)

\* for item in items: self.add(item)
AddAll(c, d, h, items) == AddLoop(c, d, h, items, 1)

\* __init__: self.data = dict(); ...; self.addAll(initialValues)
Construct(c, initialValues, h) == AddAll(c, EmptyDict, h, initialValues)

\* GroupingReducer.groupBy: build a container, return its data.
GroupBy(c, values, h) == Construct(c, values, h)

\* The function reusable() returns: it calls groupBy with the captured config.
ReusableFunction(c, values, h) == GroupBy(c, values, h)

\* ------------------------------------------------------------ reads
\* Faulty variant of __getitem__: answers None for a missing key.
GetItemDefaulting(d, key) ==
  IF Contains(d, key) THEN Ok(GetValue(d, key), <<>>) ELSE Ok(NoneV, <<>>)

\* __getitem__: self.data[key]
GetItem(d, key) ==
  IF Contains(d, key) THEN Ok(GetValue(d, key), <<>>) ELSE Raise("KeyError", <<>>)

\* get: self.data.get(key, default=default); dict.get takes no keyword
\* arguments, so the call raises TypeError before any lookup.
Get(d, key, default) == Raise("TypeError", <<>>)

\* ------------------------------------------------------------ state
VARIABLES
  cfg,       \* the configuration fixed at construction (key_transform, reducer, starter)
  pc,        \* "live": the container exists; "failed": __init__ raised; "unbuilt"
  data,      \* self.data
  heap,      \* the list objects allocated so far
  inserted,  \* history: the items whose add returned, in order
  snap,      \* the dict a caller got from currentData, and its content then
  last,      \* the last call and what it gave back to the caller
  fn,        \* whether reusable() has returned its function
  results    \* the dicts groupBy / the reusable function returned, in order

vars == <<cfg, pc, data, heap, inserted, snap, last, fn, results>>

NoSnap == [taken |-> FALSE, data |-> EmptyDict, view |-> <<>>]
LastBase ==
  [op |-> "none", key |-> 0, items |-> <<>>, dflt |-> NoneV, err |-> "none",
   raised |-> "none", after |-> 0, done |-> 0, ret |-> NoneV, seq |-> <<>>,
   n |-> 0, b |-> FALSE]
Called(op, items, r) ==
  [LastBase EXCEPT !.op = op, !.items = items, !.err = r.err,
                   !.raised = r.raised, !.after = r.after, !.done = r.done]

\* container = GroupingReducer(initialValues, **cfg)
Init ==
  \E c \in Configs, iv \in Batches :
    LET r == Construct(c, iv, <<>>) IN
      /\ cfg = c
      /\ pc = IF r.err = "none" THEN "live" ELSE "failed"
      /\ data = IF r.err = "none" THEN r.data ELSE EmptyDict
      /\ heap = r.heap
      /\ inserted = IF r.err = "none" THEN iv ELSE <<>>
      /\ snap = NoSnap
      /\ last = Called("construct", iv, r)
      /\ fn = FALSE
      /\ results = <<>>

\* container.add(item)
AddCall(item) ==
  /\ pc = "live"
  /\ Len(inserted) < MaxInserts
  /\ LET r == Add(cfg, data, heap, item) IN
       /\ data' = r.data
       /\ heap' = r.heap
       /\ inserted' = IF r.err = "none" THEN Append(inserted, item) ELSE inserted
       /\ last' = Called("add", <<item>>,
                         [err |-> r.err, raised |-> r.raised, after |-> r.after,
                          done |-> IF r.err = "none" THEN 1 ELSE 0])
  /\ UNCHANGED <<cfg, pc, snap, fn, results>>

\* container.addAll(items)
AddAllCall(items) ==
  /\ pc = "live"
  /\ Len(inserted) + Len(items) <= MaxInserts
  /\ LET r == AddAll(cfg, data, heap, items) IN
       /\ data' = r.data
       /\ heap' = r.heap
       /\ inserted' = inserted \o SubSeq(items, 1, r.done)
       /\ last' = Called("addAll", items, r)
  /\ UNCHANGED <<cfg, pc, snap, fn, results>>

\* snapshot = container.currentData
CurrentData ==
  /\ pc = "live"
  /\ snap' = [taken |-> TRUE, data |-> Copy(data), view |-> View(data, heap)]
  /\ last' = [LastBase EXCEPT !.op = "currentData"]
  /\ UNCHANGED <<cfg, pc, data, heap, inserted, fn, results>>

\* container[key]
GetItemCall(key) ==
  /\ pc = "live"
  /\ LET r == GetItem(data, key) IN
       last' = [LastBase EXCEPT !.op = "getitem", !.key = key, !.err = r.err,
                                !.ret = r.val]
  /\ UNCHANGED <<cfg, pc, data, heap, inserted, snap, fn, results>>

\* container.get(key, default)
GetCall(key, default) ==
  /\ pc = "live"
  /\ LET r == Get(data, key, default) IN
       last' = [LastBase EXCEPT !.op = "get", !.key = key, !.dflt = default,
                                !.err = r.err, !.ret = r.val]
  /\ UNCHANGED <<cfg, pc, data, heap, inserted, snap, fn, results>>

\* key in container
ContainsCall(key) ==
  /\ pc = "live"
  /\ last' = [LastBase EXCEPT !.op = "contains", !.key = key,
                              !.b = Contains(data, key)]
  /\ UNCHANGED <<cfg, pc, data, heap, inserted, snap, fn, results>>

\* len(container)
LenCall ==
  /\ pc = "live"
  /\ last' = [LastBase EXCEPT !.op = "len", !.n = Len(data)]
  /\ UNCHANGED <<cfg, pc, data, heap, inserted, snap, fn, results>>

\* list(container) and list(container.keys())
KeysCall(op) ==
  /\ pc = "live"
  /\ last' = [LastBase EXCEPT !.op = op, !.seq = Keys(data)]
  /\ UNCHANGED <<cfg, pc, data, heap, inserted, snap, fn, results>>

\* list(container.items())
ItemsCall ==
  /\ pc = "live"
  /\ last' = [LastBase EXCEPT !.op = "items", !.seq = data]
  /\ UNCHANGED <<cfg, pc, data, heap, inserted, snap, fn, results>>

\* list(container.values())
ValuesCall ==
  /\ pc = "live"
  /\ last' = [LastBase EXCEPT !.op = "values", !.seq = Values(data)]
  /\ UNCHANGED <<cfg, pc, data, heap, inserted, snap, fn, results>>

Next ==
  \/ \E item \in Items : AddCall(item)
  \/ \E items \in Batches : AddAllCall(items)
  \/ CurrentData
  \/ \E key \in KeyArgs : GetItemCall(key)
  \/ \E key \in KeyArgs, default \in Defaults : GetCall(key, default)
  \/ \E key \in KeyArgs : ContainsCall(key)
  \/ LenCall
  \/ \E op \in {"iter", "keys"} : KeysCall(op)
  \/ ItemsCall
  \/ ValuesCall

Spec == Init /\ [][Next]_vars

\* ------------------------------------------------------------ groupBy / reusable
InitReusable ==
  /\ cfg \in Configs
  /\ pc = "unbuilt"
  /\ data = EmptyDict
  /\ heap = <<>>
  /\ inserted = <<>>
  /\ snap = NoSnap
  /\ last = LastBase
  /\ fn = FALSE
  /\ results = <<>>

\* f = GroupingReducer.reusable(**cfg)
Reusable ==
  /\ ~fn
  /\ fn' = TRUE
  /\ last' = [LastBase EXCEPT !.op = "reusable"]
  /\ UNCHANGED <<cfg, pc, data, heap, inserted, snap, results>>

\* What the caller keeps of a call that returned: the dict, and (history) the
\* dataset it was computed from and its content at the time of the return.
Returned(values, r) ==
  IF r.err = "none"
  THEN Append(results, [values |-> values, ret |-> r.data,
                        view |-> View(r.data, r.heap)])
  ELSE results

\* f(values)
Invoke(values) ==
  /\ fn
  /\ Len(results) < MaxCalls
  /\ LET r == ReusableFunction(cfg, values, heap) IN
       /\ heap' = r.heap
       /\ results' = Returned(values, r)
       /\ last' = Called("f", values, r)
  /\ UNCHANGED <<cfg, pc, data, inserted, snap, fn>>

\* GroupingReducer.groupBy(values, **cfg)
GroupByCall(values) ==
  /\ Len(results) < MaxCalls
  /\ LET r == GroupBy(cfg, values, heap) IN
       /\ heap' = r.heap
       /\ results' = Returned(values, r)
       /\ last' = Called("groupBy", values, r)
  /\ UNCHANGED <<cfg, pc, data, inserted, snap, fn>>

NextReusable ==
  \/ Reusable
  \/ \E values \in Datasets : Invoke(values)
  \/ \E values \in Datasets : GroupByCall(values)

SpecReusable == InitReusable /\ [][NextReusable]_vars

\* ------------------------------------------------------------ properties
KeyOf(item) == KeyTransform(cfg, item).val
InsertedKeys == [i \in 1..Len(inserted) |-> KeyOf(inserted[i])]
GroupItems(k) == SelectSeq(inserted, LAMBDA x : KeyOf(x) = k)

RECURSIVE FirstSeenFrom(_, _, _)
FirstSeenFrom(ks, i, acc) ==
  IF i > Len(ks) THEN acc
  ELSE FirstSeenFrom(ks, i + 1,
         IF \E j \in 1..Len(acc) : acc[j] = ks[i] THEN acc ELSE Append(acc, ks[i]))
FirstSeen(ks) == FirstSeenFrom(ks, 1, <<>>)

\* reducer(...reducer(reducer(starter(), x1), x2)..., xn), an error if a call raises.
RECURSIVE FoldFrom(_, _, _, _)
FoldFrom(c, acc, items, i) ==
  IF acc.err # "none" \/ i > Len(items) THEN acc
  ELSE FoldFrom(c, Reducer(c, acc.val, items[i], acc.heap), items, i + 1)
LeftFold(c, items) == FoldFrom(c, Starter(c, <<>>), items, 1)

\* add(x1); add(x2); ...; add(xn) as separate calls, starting from dict d.
RECURSIVE InsertEach(_, _, _, _, _)
InsertEach(c, d, h, items, i) ==
  IF i > Len(items) THEN [data |-> d, heap |-> h, err |-> "none"]
  ELSE LET r == Add(c, d, h, items[i]) IN
       IF r.err # "none" THEN [data |-> r.data, heap |-> r.heap, err |-> r.err]
       ELSE InsertEach(c, r.data, r.heap, items, i + 1)

Inserting == {"add", "addAll", "construct"}

\* C1: every value in data is the left fold of reducer, seeded by one
\* starter() call, over the inserted items of its group in insertion order.
C1_LeftFold ==
  pc = "live" =>
    \A i \in 1..Len(data) :
      LET f == LeftFold(cfg, GroupItems(data[i].k)) IN
        /\ f.err = "none"
        /\ Deref(data[i].v, heap) = Deref(f.val, f.heap)

\* C2: the keys of the mapping are exactly the keys groupBy gives for the
\* inserted items, and len / membership answer accordingly.
C2_KeySet ==
  pc = "live" =>
    LET used == {InsertedKeys[i] : i \in 1..Len(inserted)} IN
      /\ KeySet(data) = used
      /\ Len(data) = Cardinality(used)
      /\ last.op = "len" => last.n = Cardinality(used)
      /\ last.op = "contains" => (last.b <=> last.key \in used)

C2_Witness ==
  /\ pc = "live"
  /\ Len(inserted) = 3
  /\ Len(data) = 2
  /\ last.op = "len"

\* C3: the content of a snapshot taken by currentData stays what it was when
\* it was taken, whatever is inserted afterwards.
C3_SnapshotUnaffected == snap.taken => View(snap.data, heap) = snap.view

\* C4: get(key, default) never errors: it returns the value of a present
\* key and the default for an absent one.
C4_GetNeverErrors ==
  last.op = "get" =>
    /\ last.err = "none"
    /\ last.ret = IF Contains(data, last.key) THEN GetValue(data, last.key)
                                               ELSE last.dflt

\* C5: an error raised by groupBy, reducer or starter during an insert is
\* the error the caller gets, and no reducer or starter call follows it.
C5_ErrorsPropagate ==
  (last.op \in Inserting /\ last.raised # "none") =>
    /\ last.err = last.raised
    /\ last.after = 0

\* C6: container[key] raises KeyError exactly when the key has no group and
\* returns the group's value otherwise, leaving the mapping as it was; the
\* other reads raise nothing.
C6_StrictLookup ==
  /\ [](last.op = "getitem" =>
          /\ last.err \in {"none", "KeyError"}
          /\ last.err = "KeyError" <=> ~Contains(data, last.key)
          /\ Contains(data, last.key) => last.ret = GetValue(data, last.key))
  /\ [](last.op \in {"contains", "len", "iter", "keys", "items", "values"} =>
          last.err = "none")
  /\ [][last'.op = "getitem" => data' = data /\ heap' = heap]_vars

C6_Witness ==
  /\ last.op = "getitem"
  /\ last.err = "KeyError"
  /\ Len(data) > 0

\* C7: whatever mix of construction with initial items, addAll and add put
\* the items in, the mapping is the one that separate add calls, one per
\* item in the same order on an empty container, produce.
C7_AddAllIsEachAdd ==
  pc = "live" =>
    LET each == InsertEach(cfg, EmptyDict, <<>>, inserted, 1) IN
      /\ each.err = "none"
      /\ View(data, heap) = View(each.data, each.heap)

C7_Witness ==
  /\ pc = "live"
  /\ last.op = "addAll"
  /\ last.done = 2
  /\ Len(inserted) = 2
  /\ Len(data) = 2

\* C8: every dict groupBy or the reusable function returned still has the
\* content it was returned with, and that content is what groupBy computes
\* for its dataset alone, starting from nothing.
C8_NoLeak ==
  \A i \in 1..Len(results) :
    LET alone == GroupBy(cfg, results[i].values, <<>>) IN
      /\ alone.err = "none"
      /\ View(results[i].ret, heap) = View(alone.data, alone.heap)
      /\ View(results[i].ret, heap) = results[i].view

C8_Witness ==
  /\ cfg = DefaultConfig
  /\ fn
  /\ last.op = "f"
  /\ Len(results) = 2
  /\ Len(results[1].values) > 0
  /\ results[1].values = results[2].values

\* C9: keys, items and values iterate the groups in the order their keys
\* were first seen among the inserted items.
C9_FirstSeenOrder ==
  pc = "live" =>
    LET order == FirstSeen(InsertedKeys) IN
      /\ Keys(data) = order
      /\ last.op \in {"iter", "keys"} => last.seq = order
      /\ last.op = "items" => Keys(last.seq) = order /\ last.seq = data
      /\ last.op = "values" =>
           last.seq = [i \in 1..Len(order) |-> GetValue(data, order[i])]

C9_Witness ==
  /\ pc = "live"
  /\ last.op = "values"
  /\ Len(inserted) = 3
  /\ KeyOf(inserted[1]) = KeyOf(inserted[3])
  /\ KeyOf(inserted[1]) # KeyOf(inserted[2])

\* C10: an add that raises leaves every key bound to the value it had, and
\* an addAll that raises leaves the mapping that the adds before the failing
\* item produce.
C10_FailedInsertNoChange ==
  [][/\ (last'.op = "add" /\ last'.err # "none") =>
          /\ data' = data
          /\ View(data', heap') = View(data, heap)
     /\ (last'.op = "addAll" /\ last'.err # "none") =>
          LET before == InsertEach(cfg, data, heap,
                                   SubSeq(last'.items, 1, last'.done), 1)
          IN View(data', heap') = View(before.data, before.heap)]_vars

C10_Witness ==
  /\ last.op = "addAll"
  /\ last.err # "none"
  /\ last.done = 1
  /\ Len(inserted) = 2
  /\ Len(data) > 0

====
